---- MODULE Spec2Model ----
(***************************************************************************)
(* The react/display-name lint rule of oxc_linter                          *)
(* (crates/oxc_linter/src/rules/react/display_name.rs).                    *)
(*                                                                         *)
(* One lint run is modelled: a file holding one declared symbol, the       *)
(* rule's options as a JSON value, and the shared react settings.  The     *)
(* rule is built by from_configuration and the dispatch engine then calls  *)
(* run_on_symbol on the symbol, possibly several times.                    *)
(*                                                                         *)
(* Option<T> is a sequence: <<>> is None and <<x>> is Some(x).             *)
(***************************************************************************)
EXTENDS Naturals, Sequences, FiniteSets

VARIABLES
    rule,            \* the DisplayName struct (self)
    options,         \* the JSON value handed to from_configuration
    settings,        \* the shared react settings of the run (pragma, createClass)
    symbol,          \* the symbol the dispatch engine presents: its declaring node
    pc,              \* "new" (rule not built), "ready", "linted"
    component_type,  \* the local of run_on_symbol: Option<ComponentType>
    diagnostics      \* the spans handed to ctx.diagnostic, in order

vars == <<rule, options, settings, symbol, pc, component_type, diagnostics>>

None == <<>>
Some(x) == <<x>>

----------------------------------------------------------------------------
(* Bounds of the model *)

\* member-access links in a callee chain (a.b has one, a.b.c has two)
MaxDepth == 2
\* properties of an object literal
MaxProps == 2
\* further arguments after the first one of a call
MaxExtraArgs == 1
\* diagnostics one lint run collects before the model stops invoking the rule
MaxDiagnostics == 2
\* key/value pairs of a JSON object in the configuration
MaxFields == 2
\* items of a JSON array standing where the options object is expected
MaxItems == 3

----------------------------------------------------------------------------
(* The syntax tree the rule reads *)

Identifier(n) == [type |-> "Identifier", name |-> n]
MemberExpression(o, p) == [type |-> "MemberExpression", object |-> o, property |-> p]
CallExpression(c, a) == [type |-> "CallExpression", callee |-> c, arguments |-> a]
ObjectExpression(ps) == [type |-> "ObjectExpression", properties |-> ps]
FunctionExpression == [type |-> "FunctionExpression"]

ArgExpression(e) == [type |-> "Expression", expression |-> e]
ArgSpreadElement(e) == [type |-> "SpreadElement", expression |-> e]

BindingIdentifier(n) == [type |-> "BindingIdentifier", name |-> n]
ObjectPattern == [type |-> "ObjectPattern"]

\* the Class struct, shared by class declarations and class expressions
Class(i, s, r, d) ==
    [id |-> i, super_class |-> s, render |-> r, static_display_name |-> d]
ClassExpression(c) == [type |-> "ClassExpression", class |-> c]

\* AstKind, the kind of a declaring node
VariableDeclarator(i, e, sp) ==
    [kind |-> "VariableDeclarator", id |-> i, init |-> e, span |-> sp]
ClassDeclaration(c, sp) == [kind |-> "Class", class |-> c, span |-> sp]

\* a function literal: a function (declaration or expression) or an arrow, its
\* own name, whether a return of its body yields a UI element, and the function
\* literal that is the expression body of an arrow
FunctionLiteral(t, i, e, b) ==
    [type |-> t, id |-> i, returns_element |-> e, body_function |-> b]
FunctionDeclaration(f, sp) == [kind |-> "Function", function |-> f, span |-> sp]

\* a reference of a symbol: a read, a write x = <value>, or the object of an
\* assignment x.displayName = <expr>
ReadReference == [type |-> "Read"]
WriteReference(e) == [type |-> "Write", value |-> e]
DisplayNameAssignment == [type |-> "DisplayNameAssignment"]

ComponentTypes == {"Named", "TranspilerNamed", "Unnamed"}

----------------------------------------------------------------------------
(* The inputs of a lint run *)

RECURSIVE SeqsUpTo(_, _)
SeqsUpTo(S, n) ==
    IF n = 0 THEN {<<>>}
    ELSE LET shorter == SeqsUpTo(S, n - 1)
         IN  shorter \cup {Append(q, x) : q \in shorter, x \in S}

RECURSIVE Repeat(_, _)
Repeat(x, n) == IF n = 0 THEN <<>> ELSE Append(Repeat(x, n - 1), x)

IdentNames == {"createReactClass", "createClass", "React", "Foo"}
\* static_property_name() of a member access: None when the property is computed
MemberProps == {Some("createClass"), None}

\* callees: identifiers, a function literal, and member chains over them
RECURSIVE Chains(_)
Chains(d) ==
    IF d = 0 THEN {Identifier(n) : n \in IdentNames} \cup {FunctionExpression}
    ELSE LET inner == Chains(d - 1)
         IN  inner \cup {MemberExpression(o, p) : o \in inner, p \in MemberProps}

Callees == Chains(MaxDepth)

\* prop_name() of an object-literal property: None for a spread, a computed
\* key, a method, an accessor or a shorthand
PropNames == {Some("displayName"), Some("render"), None}
ObjectLiterals == {ObjectExpression(ps) : ps \in SeqsUpTo(PropNames, MaxProps)}

FirstArguments ==
    {ArgExpression(o) : o \in ObjectLiterals}
        \cup {ArgExpression(FunctionExpression),
              ArgSpreadElement(ObjectExpression(<<Some("render")>>))}

ArgumentLists ==
    {<<>>} \cup {<<a>> \o Repeat(ArgExpression(FunctionExpression), k) :
                     a \in FirstArguments, k \in 0..MaxExtraArgs}

ReactComponent == MemberExpression(Identifier("React"), Some("Component"))
FooComponent == MemberExpression(Identifier("Foo"), Some("Component"))

Classes(ids) ==
    {Class(i, s, r, d) : i \in ids, s \in {None, Some(ReactComponent), Some(FooComponent)},
                         r \in BOOLEAN, d \in BOOLEAN}

Initializers ==
    {None}
        \cup {Some(CallExpression(c, a)) : c \in Callees, a \in ArgumentLists}
        \cup {Some(FunctionExpression), Some(ObjectExpression(<<Some("displayName")>>))}
        \cup {Some(ClassExpression(c)) : c \in Classes({None, Some("Hello")})}

\* function literals: function () { return <div/> }, function Hello () {...},
\* () => <div/>, a function that renders nothing, and the curried arrows
\* a => listItem => <div/> and a => function Component (listItem) {...}
AnonymousFunction == FunctionLiteral("FunctionExpression", None, TRUE, None)
NamedFunction == FunctionLiteral("FunctionExpression", Some("Hello"), TRUE, None)
AnonymousArrow == FunctionLiteral("ArrowFunctionExpression", None, TRUE, None)
PlainFunction == FunctionLiteral("FunctionExpression", None, FALSE, None)
CurriedAnonymous ==
    FunctionLiteral("ArrowFunctionExpression", None, FALSE, Some(AnonymousArrow))
CurriedNamed ==
    FunctionLiteral("ArrowFunctionExpression", None, FALSE,
                    Some(FunctionLiteral("FunctionExpression", Some("Component"), TRUE, None)))

FunctionLiterals ==
    {AnonymousFunction, NamedFunction, AnonymousArrow, PlainFunction,
     CurriedAnonymous, CurriedNamed}

\* React.memo(f), React.forwardRef(f) and React.memo(React.forwardRef(f))
ReactMemo == MemberExpression(Identifier("React"), Some("memo"))
ReactForwardRef == MemberExpression(Identifier("React"), Some("forwardRef"))
WrapperCalls ==
    LET fs == {AnonymousFunction, AnonymousArrow, NamedFunction}
        direct == {CallExpression(w, <<ArgExpression(f)>>) :
                      w \in {ReactMemo, ReactForwardRef}, f \in fs}
    IN  direct \cup {CallExpression(ReactMemo, <<ArgExpression(c)>>) :
                        c \in {d \in direct : d.callee = ReactForwardRef}}

\* createContext(), React.createContext(), and both with a default value
ContextCallees ==
    {Identifier("createContext"),
     MemberExpression(Identifier("React"), Some("createContext"))}
ContextCalls ==
    {CallExpression(c, a) :
        c \in ContextCallees, a \in {<<>>, <<ArgExpression(ObjectExpression(<<>>))>>}}

\* the initializers whose naming the rule is to derive from more than a factory
\* call's literal
ComponentInitializers ==
    {Some(f) : f \in FunctionLiterals}
        \cup {Some(c) : c \in WrapperCalls}
        \cup {Some(c) : c \in ContextCalls}

Spans == {[start |-> 0, end |-> 20], [start |-> 21, end |-> 40]}

BindingPatterns == {BindingIdentifier("Hello"), ObjectPattern}

\* the declaring nodes a symbol can have; a class declaration that declares
\* a symbol has a name
Declarations ==
    {VariableDeclarator(i, e, sp) : i \in BindingPatterns, e \in Initializers, sp \in Spans}
        \cup {ClassDeclaration(c, sp) : c \in Classes({Some("Hello")}), sp \in Spans}
        \cup {VariableDeclarator(BindingIdentifier("Hello"), e, sp) :
                  e \in ComponentInitializers, sp \in Spans}
        \cup {FunctionDeclaration(f, sp) :
                  f \in {NamedFunction,
                         FunctionLiteral("FunctionExpression", Some("Hello"), FALSE, None)},
                  sp \in Spans}

\* the reference lists of a symbol: none, reads, an assignment to displayName,
\* and a late initialization by a context factory with the assignment to
\* displayName before or after it
ReferenceLists ==
    LET late == WriteReference(CallExpression(Identifier("createContext"), <<>>))
    IN  {<<>>, <<ReadReference>>, <<DisplayNameAssignment>>, <<late>>,
         <<late, DisplayNameAssignment>>, <<DisplayNameAssignment, late>>,
         <<late, ReadReference, DisplayNameAssignment>>}

\* a factory call is named by its literal alone; the other declarations come
\* with every reference list
ReferencesOf(d) ==
    IF /\ d.kind = "VariableDeclarator"
       /\ d.init # None
       /\ d.init[1].type = "CallExpression"
       /\ d.init[1].callee \in Callees
    THEN {<<>>}
    ELSE ReferenceLists

\* the symbols the dispatch engine can present
Symbols ==
    {s \in [declaration : Declarations, references : ReferenceLists] :
        s.references \in ReferencesOf(s.declaration)}

\* the shared settings: the defaults, and the ones of the Foo fixtures
Settings ==
    {[pragma |-> "React", createClass |-> "createReactClass", version |-> None],
     [pragma |-> "Foo", createClass |-> "createClass", version |-> None]}

\* settings.react.version of the fixtures, and the versions around 16.13.0
Versions == {<<15, 7, 1>>, <<16, 12, 0>>, <<16, 13, 0>>}
VersionedSettings ==
    {[pragma |-> "React", createClass |-> "createReactClass", version |-> Some(v)] :
        v \in Versions}

\* the settings a file is linted under: a version is given for the files
\* that declare a wrapped component
SettingsOf(d) ==
    IF /\ d.kind = "VariableDeclarator"
       /\ d.init # None
       /\ d.init[1].type = "CallExpression"
       /\ d.init[1].callee \in {ReactMemo, ReactForwardRef}
    THEN Settings \cup VersionedSettings
    ELSE Settings

\* serde_json::Value
JsonNull == [type |-> "Null"]
JsonBool(b) == [type |-> "Bool", value |-> b]
JsonString == [type |-> "String"]
JsonArray(items) == [type |-> "Array", items |-> items]
\* an object is its key/value pairs, keys in order and distinct
JsonObject(fields) == [type |-> "Object", fields |-> fields]

\* the options of the test fixtures: none given, or one object in an array
LintOptions ==
    {JsonNull,
     JsonArray(<<JsonObject(<<<<"ignoreTranspilerName", JsonBool(TRUE)>>>>)>>),
     JsonArray(<<JsonObject(<<<<"ignoreTranspilerName", JsonBool(FALSE)>>>>)>>),
     JsonArray(<<JsonObject(<<<<"checkContextObjects", JsonBool(TRUE)>>>>)>>),
     JsonArray(<<JsonObject(<<<<"checkContextObjects", JsonBool(TRUE)>>,
                              <<"ignoreTranspilerName", JsonBool(TRUE)>>>>)>>)}

\* the scalars of a configuration value
JsonLeaves == {JsonNull, JsonBool(TRUE), JsonBool(FALSE), JsonString}

\* the keys of the rule's options, a documented option the struct has no
\* field for, and a field's name as spelt in the struct
ConfigKeys ==
    {"checkContextObjects", "ignoreTranspilerName", "componentWrapperFunctions",
     "ignore_transpiler_name"}

\* objects of up to MaxFields pairs, no key twice (a serde_json map)
ConfigObjects ==
    {JsonObject(fields) :
        fields \in {f \in SeqsUpTo(ConfigKeys \X JsonLeaves, MaxFields) :
                       \A i, j \in 1..Len(f) : f[i][1] = f[j][1] => i = j}}

\* the values that may stand as the element of the configuration array
ConfigElements ==
    JsonLeaves \cup ConfigObjects
        \cup {JsonArray(items) : items \in SeqsUpTo(JsonLeaves, MaxItems)}

\* any configuration value: a scalar, a bare object, and arrays of no, one
\* and two elements
ConfigValues ==
    JsonLeaves \cup ConfigObjects
        \cup {JsonArray(<<>>)}
        \cup {JsonArray(<<e>>) : e \in ConfigElements}
        \cup {JsonArray(<<e, l>>) : e \in ConfigElements, l \in JsonLeaves}

----------------------------------------------------------------------------
(* The rule's code *)

\* #[derive(Default)]: both options false
DefaultRule == [check_context_objects |-> FALSE, ignore_transpiler_name |-> FALSE]

\* get_expr_ident taking the object's name when the property is not static
RECURSIVE get_expr_ident_SkipsComputed(_)
get_expr_ident_SkipsComputed(expr) ==
    CASE expr.type = "Identifier" -> Some(expr.name)
      [] expr.type = "MemberExpression" ->
            LET parent_name == get_expr_ident_SkipsComputed(expr.object)
            IN  IF parent_name = None THEN None
                ELSE IF expr.property = None THEN parent_name
                ELSE Some(parent_name[1] \o "." \o expr.property[1])
      [] OTHER -> None

\* get_expr_ident: the dotted name of an identifier or member chain
RECURSIVE get_expr_ident(_)
get_expr_ident(expr) ==
    CASE expr.type = "Identifier" -> Some(expr.name)
      [] expr.type = "MemberExpression" ->
            LET parent_name == get_expr_ident(expr.object)
            IN  IF parent_name = None THEN None
                ELSE IF expr.property = None THEN None
                ELSE Some(parent_name[1] \o "." \o expr.property[1])
      [] OTHER -> None

\* CreateClassNames with the context factories taken for component factories
CreateClassNames_WithContext ==
    {"createReactClass", "createClass", "React.createClass",
     "createContext", "React.createContext"}

\* the callee names get_component_type takes for a component factory
CreateClassNames == {"createReactClass", "createClass", "React.createClass"}

\* has_display_name looking at the first property only
has_display_name_First(obj_expr) ==
    /\ Len(obj_expr.properties) >= 1
    /\ obj_expr.properties[1] = Some("displayName")

\* the closure over obj_expr.properties: some property is named displayName
has_display_name(obj_expr) ==
    \E i \in 1..Len(obj_expr.properties) :
        /\ obj_expr.properties[i] # None
        /\ obj_expr.properties[i][1] = "displayName"

\* ClassifyArguments reading the first argument of however many
ClassifyArguments_FirstArgument(arguments) ==
    IF /\ Len(arguments) >= 1
       /\ arguments[1].type = "Expression"
       /\ arguments[1].expression.type = "ObjectExpression"
    THEN IF has_display_name(arguments[1].expression)
         THEN Some("Named")
         ELSE Some("TranspilerNamed")
    ELSE None

\* the match on call_expr.arguments: one argument, an object literal
ClassifyArguments(arguments) ==
    IF /\ Len(arguments) = 1
       /\ arguments[1].type = "Expression"
       /\ arguments[1].expression.type = "ObjectExpression"
    THEN IF has_display_name(arguments[1].expression)
         THEN Some("Named")
         ELSE Some("TranspilerNamed")
    ELSE None

\* get_component_type without the test of the callee's name
get_component_type_AnyCallee(node) ==
    IF node.kind # "VariableDeclarator" THEN None
    ELSE IF node.init = None THEN None
    ELSE LET init == node.init[1]
         IN  IF init.type # "CallExpression" THEN None
             ELSE IF get_expr_ident(init.callee) = None THEN None
             ELSE ClassifyArguments(init.arguments)

\* get_component_type: Option<ComponentType> of a declaring node
get_component_type(node) ==
    IF node.kind # "VariableDeclarator" THEN None
    ELSE IF node.init = None THEN None
    ELSE LET init == node.init[1]
         IN  IF init.type # "CallExpression" THEN None
             ELSE LET ident == get_expr_ident(init.callee)
                  IN  IF ident = None THEN None
                      ELSE IF ident[1] \notin CreateClassNames THEN None
                      ELSE ClassifyArguments(init.arguments)

\* the value of key in a JSON object's fields, None when the key is absent
JsonField(fields, key) ==
    IF \E i \in 1..Len(fields) : fields[i][1] = key
    THEN Some(fields[CHOOSE i \in 1..Len(fields) : fields[i][1] = key][2])
    ELSE None

\* DeserializeBool taking a value that is no bool for the default
DeserializeBool_Lenient(field) ==
    IF field = None THEN Some(FALSE)
    ELSE IF field[1].type = "Bool" THEN Some(field[1].value)
    ELSE Some(FALSE)

\* one bool field with #[serde(default)]: Some(value), the default when the
\* field is absent, None when the value is no bool (a decoding error)
DeserializeBool(field) ==
    IF field = None THEN Some(FALSE)
    ELSE IF field[1].type = "Bool" THEN Some(field[1].value)
    ELSE None

\* the derived Deserialize of DisplayName on a JSON value: from an object by
\* camelCase key (other keys skipped), from an array by position
deserialize(value) ==
    LET fieldsOf ==
            CASE value.type = "Object" ->
                    Some(<<JsonField(value.fields, "checkContextObjects"),
                           JsonField(value.fields, "ignoreTranspilerName")>>)
              [] value.type = "Array" /\ Len(value.items) <= 2 ->
                    Some(<<IF Len(value.items) >= 1 THEN Some(value.items[1]) ELSE None,
                           IF Len(value.items) >= 2 THEN Some(value.items[2]) ELSE None>>)
              [] OTHER -> None
    IN  IF fieldsOf = None THEN None
        ELSE LET check == DeserializeBool(fieldsOf[1][1])
                 ignore == DeserializeBool(fieldsOf[1][2])
             IN  IF check = None \/ ignore = None THEN None
                 ELSE Some([check_context_objects |-> check[1],
                            ignore_transpiler_name |-> ignore[1]])

\* config decoding the array itself, not its element
config_WholeArray(value) ==
    IF value.type # "Array" THEN None
    ELSE IF Len(value.items) # 1 THEN None
    ELSE deserialize(value)

\* DeserializeConfig::config: the sole element of an array, decoded
config(value) ==
    IF value.type # "Array" THEN None
    ELSE IF Len(value.items) # 1 THEN None
    ELSE deserialize(value.items[1])

\* Rule::from_configuration
from_configuration(value) ==
    LET decoded == config(value)
    IN  IF decoded = None
        THEN [check_context_objects |-> FALSE, ignore_transpiler_name |-> FALSE]
        ELSE decoded[1]

\* ShouldReport with the TranspilerNamed arm negated
ShouldReport_NegatedOption(self, ct) ==
    CASE ct = "TranspilerNamed" -> ~self.ignore_transpiler_name
      [] ct = "Unnamed" -> TRUE
      [] OTHER -> FALSE

\* ShouldReport with the catch-all arm taking the option too
ShouldReport_NamedByOption(self, ct) ==
    CASE ct = "Unnamed" -> TRUE
      [] OTHER -> self.ignore_transpiler_name

\* the match on component_type in run_on_symbol that guards the diagnostic
ShouldReport(self, ct) ==
    CASE ct = "TranspilerNamed" -> self.ignore_transpiler_name
      [] ct = "Unnamed" -> TRUE
      [] OTHER -> FALSE

----------------------------------------------------------------------------
(* The lint run *)

Init ==
    /\ rule = DefaultRule
    /\ options \in LintOptions
    /\ symbol \in Symbols
    /\ settings \in SettingsOf(symbol.declaration)
    /\ pc = "new"
    /\ component_type = None
    /\ diagnostics = <<>>

\* the linter builds the rule from the options
FromConfiguration ==
    /\ pc = "new"
    /\ rule' = from_configuration(options)
    /\ pc' = "ready"
    /\ UNCHANGED <<options, settings, symbol, component_type, diagnostics>>

\* Report labelling the diagnostic with the empty span
Report_DefaultSpan(node, ct) ==
    /\ component_type' = ct
    /\ diagnostics' = IF ct # None /\ ShouldReport(rule, ct[1])
                      THEN Append(diagnostics, [start |-> 0, end |-> 0])
                      ELSE diagnostics
    /\ pc' = "linted"
    /\ UNCHANGED <<rule, options, settings, symbol>>

\* Report emitting the diagnostic twice
Report_Twice(node, ct) ==
    /\ component_type' = ct
    /\ diagnostics' = IF ct # None /\ ShouldReport(rule, ct[1])
                      THEN diagnostics \o <<node.span, node.span>>
                      ELSE diagnostics
    /\ pc' = "linted"
    /\ UNCHANGED <<rule, options, settings, symbol>>

\* Report keeping to one diagnostic per lint run
Report_OncePerRun(node, ct) ==
    /\ component_type' = ct
    /\ diagnostics' = IF ct # None /\ ShouldReport(rule, ct[1]) /\ diagnostics = <<>>
                      THEN Append(diagnostics, node.span)
                      ELSE diagnostics
    /\ pc' = "linted"
    /\ UNCHANGED <<rule, options, settings, symbol>>

\* the end of run_on_symbol, from the classification on
Report(node, ct) ==
    /\ component_type' = ct
    /\ diagnostics' = IF ct # None /\ ShouldReport(rule, ct[1])
                      THEN Append(diagnostics, node.span)
                      ELSE diagnostics
    /\ pc' = "linted"
    /\ UNCHANGED <<rule, options, settings, symbol>>

\* Rule::run_on_symbol on the file's symbol
RunOnSymbol ==
    /\ pc \in {"ready", "linted"}
    /\ Len(diagnostics) < MaxDiagnostics
    /\ LET node == symbol.declaration
       IN  Report(node, get_component_type(node))

Next == FromConfiguration \/ RunOnSymbol

Spec == Init /\ [][Next]_vars

\* the symbols of a file with several declarations, one span each
FileSymbols ==
    LET first == [start |-> 0, end |-> 20]
        second == [start |-> 21, end |-> 40]
        render == <<ArgExpression(ObjectExpression(<<Some("render")>>))>>
        named == <<ArgExpression(ObjectExpression(<<Some("displayName"), Some("render")>>))>>
    IN  {[declaration |-> VariableDeclarator(BindingIdentifier("Hello"),
                              Some(CallExpression(Identifier("createReactClass"), render)),
                              first),
          references |-> <<>>],
         [declaration |-> VariableDeclarator(BindingIdentifier("Hello"),
                              Some(CallExpression(
                                  MemberExpression(Identifier("React"), Some("createClass")),
                                  render)),
                              second),
          references |-> <<>>],
         [declaration |-> VariableDeclarator(BindingIdentifier("Hello"),
                              Some(CallExpression(Identifier("createReactClass"), named)),
                              second),
          references |-> <<>>],
         [declaration |-> VariableDeclarator(BindingIdentifier("Hello"),
                              Some(CallExpression(Identifier("createContext"), <<>>)),
                              first),
          references |-> <<DisplayNameAssignment>>],
         [declaration |-> ClassDeclaration(
                              Class(Some("Hello"), Some(ReactComponent), TRUE, FALSE), second),
          references |-> <<ReadReference>>]}

\* the dispatch engine turns to another symbol of the file
Present ==
    /\ pc \in {"ready", "linted"}
    /\ symbol' \in FileSymbols \ {symbol}
    /\ pc' = "ready"
    /\ UNCHANGED <<rule, options, settings, component_type, diagnostics>>

\* A lint run over a file with several symbols: the engine invokes
\* run_on_symbol on them in any order, any number of times each.
DispatchNext == FromConfiguration \/ Present \/ RunOnSymbol

DispatchSpec == Init /\ [][DispatchNext]_vars

\* A lint run under any configuration value, well-formed or not
ConfigInit ==
    /\ rule = DefaultRule
    /\ options \in ConfigValues
    /\ symbol \in FileSymbols
    /\ settings \in Settings
    /\ pc = "new"
    /\ component_type = None
    /\ diagnostics = <<>>

ConfigSpec == ConfigInit /\ [][Next]_vars

----------------------------------------------------------------------------
(* The shapes the claims speak of, read off the syntax tree *)

Linted == pc = "linted"
\* run_on_symbol has handed a diagnostic to the context
Reported == diagnostics # <<>>

IsCallDeclarator(node) ==
    /\ node.kind = "VariableDeclarator"
    /\ node.init # None
    /\ node.init[1].type = "CallExpression"

SoleObjectLiteral(arguments) ==
    /\ Len(arguments) = 1
    /\ arguments[1].type = "Expression"
    /\ arguments[1].expression.type = "ObjectExpression"

LiteralNamesDisplayName(obj) ==
    \E i \in 1..Len(obj.properties) : obj.properties[i] = Some("displayName")

\* createReactClass(...) or React.createClass(...)
IsReactFactoryCallee(callee) ==
    \/ callee = Identifier("createReactClass")
    \/ callee = MemberExpression(Identifier("React"), Some("createClass"))

\* var x = createReactClass({...}) or var x = React.createClass({...})
IsFactoryDeclarator(node) ==
    /\ IsCallDeclarator(node)
    /\ IsReactFactoryCallee(node.init[1].callee)
    /\ SoleObjectLiteral(node.init[1].arguments)

FactoryLiteral(node) == node.init[1].arguments[1].expression

\* the options are [{..., "ignoreTranspilerName": true, ...}]
OptionsIgnoreTranspilerName ==
    /\ options.type = "Array"
    /\ Len(options.items) = 1
    /\ options.items[1].type = "Object"
    /\ \E i \in 1..Len(options.items[1].fields) :
          options.items[1].fields[i] = <<"ignoreTranspilerName", JsonBool(TRUE)>>

----------------------------------------------------------------------------
(* The claims *)

\* C1 as stated: for a symbol classified TranspilerNamed, run_on_symbol emits
\* a diagnostic if and only if ignore_transpiler_name is false.
C1_ReportsIffOptionFalse ==
    (Linted /\ component_type = Some("TranspilerNamed"))
        => (Reported <=> ~rule.ignore_transpiler_name)

\* C1 amended: for a symbol classified TranspilerNamed, run_on_symbol emits a
\* diagnostic if and only if ignore_transpiler_name is true.
C1_ReportsIffOptionTrue ==
    (Linted /\ component_type = Some("TranspilerNamed"))
        => (Reported <=> rule.ignore_transpiler_name)

C1_Witness ==
    /\ Linted
    /\ component_type = Some("TranspilerNamed")
    /\ rule.ignore_transpiler_name
    /\ Reported

\* C2: a declarator initialized by createReactClass / React.createClass with a
\* sole object literal that has no displayName is reported when the option
\* ignoreTranspilerName is true, and is not reported when no options are given.
C2_FactoryWithoutDisplayName ==
    (/\ Linted
     /\ IsFactoryDeclarator(symbol.declaration)
     /\ ~LiteralNamesDisplayName(FactoryLiteral(symbol.declaration)))
        => /\ OptionsIgnoreTranspilerName => Reported
           /\ options = JsonNull => ~Reported

C2_Witness ==
    /\ Linted
    /\ IsFactoryDeclarator(symbol.declaration)
    /\ symbol.declaration.init[1].callee # Identifier("createReactClass")
    /\ ~LiteralNamesDisplayName(FactoryLiteral(symbol.declaration))
    /\ OptionsIgnoreTranspilerName
    /\ Reported

\* C3: a symbol classified Named is never reported, whatever the two options.
C3_NamedNeverReported ==
    (Linted /\ component_type = Some("Named")) => ~Reported

C3_Witness ==
    /\ Linted
    /\ component_type = Some("Named")
    /\ rule.ignore_transpiler_name
    /\ rule.check_context_objects
    /\ ~Reported

\* the class a symbol is bound to: a class declaration, or a declarator whose
\* initializer is a class expression
IsClassBinding(node) ==
    \/ node.kind = "Class"
    \/ /\ node.kind = "VariableDeclarator"
       /\ node.init # None
       /\ node.init[1].type = "ClassExpression"

BoundClass(node) == IF node.kind = "Class" THEN node.class ELSE node.init[1].class

\* the class extends <pragma>.Component or has an instance method render
IsComponentClass(class) ==
    \/ class.super_class = Some(MemberExpression(Identifier(settings.pragma), Some("Component")))
    \/ class.render

\* the class or its binding has a name
HasClassName(node) ==
    \/ BoundClass(node).id # None
    \/ node.kind = "VariableDeclarator" /\ node.id.type = "BindingIdentifier"

\* the callee is <pragma>.createClass, createReactClass or the createClass alias
IsConfiguredFactoryCallee(callee) ==
    \/ callee = MemberExpression(Identifier(settings.pragma), Some("createClass"))
    \/ callee = Identifier("createReactClass")
    \/ callee = Identifier(settings.createClass)

\* C5 as stated, for the factory createReactClass: a declarator bound to a
\* factory call with a sole object literal is Named iff the literal has a
\* property named displayName, otherwise TranspilerNamed iff the binding is an
\* identifier, otherwise Unnamed.
C5_FactoryClassification ==
    (/\ Linted
     /\ IsCallDeclarator(symbol.declaration)
     /\ symbol.declaration.init[1].callee = Identifier("createReactClass")
     /\ SoleObjectLiteral(symbol.declaration.init[1].arguments))
        => component_type =
              IF LiteralNamesDisplayName(FactoryLiteral(symbol.declaration))
              THEN Some("Named")
              ELSE IF symbol.declaration.id.type = "BindingIdentifier"
              THEN Some("TranspilerNamed")
              ELSE Some("Unnamed")

\* C6: a declarator initialized by createReactClass / React.createClass whose
\* sole object literal has a displayName property is never reported.
C6_FactoryWithDisplayName ==
    (/\ Linted
     /\ IsFactoryDeclarator(symbol.declaration)
     /\ LiteralNamesDisplayName(FactoryLiteral(symbol.declaration)))
        => ~Reported

C6_Witness ==
    /\ Linted
    /\ IsFactoryDeclarator(symbol.declaration)
    /\ FactoryLiteral(symbol.declaration)
          = ObjectExpression(<<Some("render"), Some("displayName")>>)
    /\ rule.ignore_transpiler_name
    /\ ~Reported

\* var Hello = createReactClass({ ... }) with no displayName in the literal
IsHelloWithoutDisplayName(node) ==
    /\ IsCallDeclarator(node)
    /\ node.id = BindingIdentifier("Hello")
    /\ node.init[1].callee = Identifier("createReactClass")
    /\ SoleObjectLiteral(node.init[1].arguments)
    /\ ~LiteralNamesDisplayName(FactoryLiteral(node))

\* C7 as stated: var Hello = createReactClass({ render(){...} }) is classified
\* Unnamed and a diagnostic is emitted at the declarator's span.
C7_UnnamedAndReported ==
    (Linted /\ IsHelloWithoutDisplayName(symbol.declaration))
        => /\ component_type = Some("Unnamed")
           /\ Reported
           /\ \A i \in 1..Len(diagnostics) : diagnostics[i] = symbol.declaration.span

\* C7 amended: var Hello = createReactClass({ render(){...} }) is classified
\* TranspilerNamed; a diagnostic is emitted exactly when ignore_transpiler_name
\* is true, and its span is the declarator's span.
C7_TranspilerNamedAtDeclarator ==
    (Linted /\ IsHelloWithoutDisplayName(symbol.declaration))
        => /\ component_type = Some("TranspilerNamed")
           /\ Reported <=> rule.ignore_transpiler_name
           /\ \A i \in 1..Len(diagnostics) : diagnostics[i] = symbol.declaration.span

C7_Witness ==
    /\ Linted
    /\ IsHelloWithoutDisplayName(symbol.declaration)
    /\ FactoryLiteral(symbol.declaration) = ObjectExpression(<<Some("render")>>)
    /\ rule.ignore_transpiler_name
    /\ diagnostics = <<symbol.declaration.span>>

\* a declaration of none of the shapes get_component_type takes: no
\* declarator, no initializer, no call, a callee that is none of the factory
\* names (unresolvable ones included), or arguments that are not one object
\* literal
IsUnrecognizedShape(node) ==
    \/ node.kind # "VariableDeclarator"
    \/ node.init = None
    \/ node.init[1].type # "CallExpression"
    \/ /\ ~IsReactFactoryCallee(node.init[1].callee)
       /\ node.init[1].callee # Identifier("createClass")
    \/ ~SoleObjectLiteral(node.init[1].arguments)

\* C8: every unrecognized declaration shape yields "not a component" and no
\* diagnostic; classification always yields None or a ComponentType.
C8_UnrecognizedShapesRejected ==
    Linted =>
        /\ component_type \in {None} \cup {Some(ct) : ct \in ComponentTypes}
        /\ IsUnrecognizedShape(symbol.declaration)
              => (component_type = None /\ ~Reported)

C8_Witness ==
    /\ Linted
    /\ IsCallDeclarator(symbol.declaration)
    /\ symbol.declaration.init[1].callee
          = MemberExpression(Identifier("React"), None)
    /\ symbol.declaration.init[1].arguments
          = <<ArgExpression(ObjectExpression(<<Some("render")>>))>>
    /\ rule.ignore_transpiler_name
    /\ component_type = None
    /\ ~Reported

\* C9 as stated: a call to <pragma>.createClass, createReactClass or the
\* configured createClass alias with a sole object literal is a component, and
\* without displayName it is reported when ignore_transpiler_name is true.
C9_ConfiguredFactoryRecognized ==
    (/\ Linted
     /\ IsCallDeclarator(symbol.declaration)
     /\ IsConfiguredFactoryCallee(symbol.declaration.init[1].callee)
     /\ SoleObjectLiteral(symbol.declaration.init[1].arguments))
        => /\ component_type # None
           /\ (/\ ~LiteralNamesDisplayName(FactoryLiteral(symbol.declaration))
               /\ rule.ignore_transpiler_name) => Reported

\* C10 as stated, for a symbol none of whose references assigns displayName:
\* a class that extends <pragma>.Component or has a render method is a
\* component, Named iff it has a static displayName, otherwise TranspilerNamed
\* iff the class or its binding has a name, otherwise Unnamed.
C10_ClassClassification ==
    (/\ Linted
     /\ IsClassBinding(symbol.declaration)
     /\ IsComponentClass(BoundClass(symbol.declaration)))
        => component_type =
              IF BoundClass(symbol.declaration).static_display_name
              THEN Some("Named")
              ELSE IF HasClassName(symbol.declaration)
              THEN Some("TranspilerNamed")
              ELSE Some("Unnamed")

\* some reference of the symbol is the object of x.displayName = <expr>
HasDisplayNameAssignment(refs) ==
    \E i \in 1..Len(refs) : refs[i] = DisplayNameAssignment

\* the function value a symbol is bound to: a function declaration, or a
\* declarator whose initializer is a function literal
IsFunctionBinding(node) ==
    \/ node.kind = "Function"
    \/ /\ node.kind = "VariableDeclarator"
       /\ node.init \in {Some(f) : f \in FunctionLiterals}

BoundFunction(node) == IF node.kind = "Function" THEN node.function ELSE node.init[1]

\* C11 as stated: a render-returning function value is a component, Named iff
\* the function literal has its own name or a reference of the symbol assigns
\* displayName, otherwise TranspilerNamed iff it is the direct initializer of a
\* named binding, otherwise Unnamed.
C11_FunctionClassification ==
    (/\ Linted
     /\ IsFunctionBinding(symbol.declaration)
     /\ BoundFunction(symbol.declaration).returns_element)
        => component_type =
              IF \/ BoundFunction(symbol.declaration).id # None
                 \/ HasDisplayNameAssignment(symbol.references)
              THEN Some("Named")
              ELSE IF /\ symbol.declaration.kind = "VariableDeclarator"
                      /\ symbol.declaration.id.type = "BindingIdentifier"
              THEN Some("TranspilerNamed")
              ELSE Some("Unnamed")

\* the call is createContext(...) or <pragma>.createContext(...)
IsContextCall(expr) ==
    /\ expr.type = "CallExpression"
    /\ expr.callee \in {Identifier("createContext"),
                        MemberExpression(Identifier(settings.pragma), Some("createContext"))}

\* the symbol is bound to a context-factory call, in its declarator or by a
\* later write
IsContextSymbol(sym) ==
    /\ sym.declaration.kind = "VariableDeclarator"
    /\ \/ sym.declaration.init # None /\ IsContextCall(sym.declaration.init[1])
       \/ /\ sym.declaration.init = None
          /\ \E i \in 1..Len(sym.references) :
                /\ sym.references[i].type = "Write"
                /\ IsContextCall(sym.references[i].value)

\* C12 as stated: with check_context_objects true, a symbol bound to a
\* context-factory call is reported if and only if none of its references is
\* the object of an assignment to displayName.
C12_ContextReportedIffUnnamed ==
    (Linted /\ rule.check_context_objects /\ IsContextSymbol(symbol))
        => (Reported <=> ~HasDisplayNameAssignment(symbol.references))

\* C13: with check_context_objects false, a symbol bound to a context-factory
\* call is not a component and is never reported, with or without an
\* assignment to displayName.
C13_ContextIgnoredByDefault ==
    (Linted /\ ~rule.check_context_objects /\ IsContextSymbol(symbol))
        => (component_type = None /\ ~Reported)

C13_Witness ==
    /\ Linted
    /\ ~rule.check_context_objects
    /\ rule.ignore_transpiler_name
    /\ symbol.declaration.kind = "VariableDeclarator"
    /\ symbol.declaration.init
          = Some(CallExpression(Identifier("createContext"),
                                <<ArgExpression(ObjectExpression(<<>>))>>))
    /\ ~HasDisplayNameAssignment(symbol.references)
    /\ component_type = None
    /\ ~Reported

\* C14 as stated: for let x; x = createContext(); x.displayName = "D" the
\* result is Named and nothing is reported, wherever the assignment to
\* displayName stands among the symbol's references.
C14_LateContextNamed ==
    (/\ Linted
     /\ rule.check_context_objects
     /\ symbol.declaration.kind = "VariableDeclarator"
     /\ symbol.declaration.init = None
     /\ IsContextSymbol(symbol)
     /\ HasDisplayNameAssignment(symbol.references))
        => (component_type = Some("Named") /\ ~Reported)

\* the call is <pragma>.memo(...) or <pragma>.forwardRef(...)
IsWrapperCall(expr) ==
    /\ expr.type = "CallExpression"
    /\ expr.callee \in {MemberExpression(Identifier(settings.pragma), Some("memo")),
                        MemberExpression(Identifier(settings.pragma), Some("forwardRef"))}
    /\ Len(expr.arguments) >= 1
    /\ expr.arguments[1].type = "Expression"

\* the first argument of a wrapper call, unwrapped through every wrapper
RECURSIVE Unwrapped(_)
Unwrapped(expr) ==
    IF IsWrapperCall(expr) THEN Unwrapped(expr.arguments[1].expression) ELSE expr

IsWrapperDeclarator(node) ==
    /\ node.kind = "VariableDeclarator"
    /\ node.init # None
    /\ IsWrapperCall(node.init[1])

\* C15 as stated: wrapper calls are unwrapped through every wrapper, so a
\* wrapped function is a component whatever the nesting, and an anonymous
\* wrapped function that returns an element is reported when no version is
\* configured.
C15_WrappersUnwrapped ==
    (Linted /\ IsWrapperDeclarator(symbol.declaration))
        => /\ component_type # None
           /\ (/\ Unwrapped(symbol.declaration.init[1]).id = None
               /\ settings.version = None) => Reported

\* the function is the direct argument of <pragma>.forwardRef, whatever wraps
\* that call
RECURSIVE IsForwardRefArgument(_)
IsForwardRefArgument(expr) ==
    /\ IsWrapperCall(expr)
    /\ IF IsWrapperCall(expr.arguments[1].expression)
       THEN IsForwardRefArgument(expr.arguments[1].expression)
       ELSE expr.callee
              = MemberExpression(Identifier(settings.pragma), Some("forwardRef"))

\* versions in lexicographic order
VersionLess(a, b) ==
    \/ a[1] < b[1]
    \/ a[1] = b[1] /\ a[2] < b[2]
    \/ a[1] = b[1] /\ a[2] = b[2] /\ a[3] < b[3]

\* C16 as stated: an anonymous function that is the direct argument of
\* <pragma>.forwardRef is Named when the version is known and below 16.13.0,
\* and Unnamed at 16.13.0, above it, and when the version is unknown.
C16_ForwardRefVersionException ==
    (/\ Linted
     /\ IsWrapperDeclarator(symbol.declaration)
     /\ IsForwardRefArgument(symbol.declaration.init[1])
     /\ Unwrapped(symbol.declaration.init[1]).id = None)
        => component_type =
              IF /\ settings.version # None
                 /\ VersionLess(settings.version[1], <<16, 13, 0>>)
              THEN Some("Named")
              ELSE Some("Unnamed")

\* C17 as stated: const renderer = a => listItem => <div/> is reported under
\* the default options, and const renderer = a => function Component
\* (listItem) {...} is not.
C17_CurriedRenderer ==
    (/\ Linted
     /\ rule = DefaultRule
     /\ symbol.references = <<>>
     /\ symbol.declaration.kind = "VariableDeclarator")
        => /\ symbol.declaration.init = Some(CurriedAnonymous) => Reported
           /\ symbol.declaration.init = Some(CurriedNamed) => ~Reported

\* C18: an invocation of run_on_symbol emits at most one diagnostic, and the
\* one it emits has the span of the symbol's declaring node.
C18_AtMostOneAtDeclaration ==
    [][\/ diagnostics' = diagnostics
       \/ diagnostics' = Append(diagnostics, symbol.declaration.span)]_vars

C18_Witness ==
    /\ Linted
    /\ component_type = Some("TranspilerNamed")
    /\ symbol.declaration.span = [start |-> 21, end |-> 40]
    /\ diagnostics = <<[start |-> 0, end |-> 20], [start |-> 21, end |-> 40]>>

\* what an invocation is to emit, from the declaration and the options alone:
\* a factory call with one object literal without displayName, under
\* ignore_transpiler_name
ReportsBy(sym, self) ==
    /\ ~IsUnrecognizedShape(sym.declaration)
    /\ ~LiteralNamesDisplayName(FactoryLiteral(sym.declaration))
    /\ self.ignore_transpiler_name

\* C19: under every order of invocations over the symbols of a file, repeated
\* ones included, an invocation's outcome is a function of the symbol and the
\* rule's options alone, and the options are left as from_configuration set
\* them.
C19_Stateless ==
    [][/\ pc' = "linted" =>
            diagnostics' = IF ReportsBy(symbol, rule)
                           THEN Append(diagnostics, symbol.declaration.span)
                           ELSE diagnostics
       /\ pc # "new" => rule' = rule]_vars

\* one symbol was reported, then another one was linted and was not
C19_Witness ==
    /\ Linted
    /\ diagnostics = <<[start |-> 0, end |-> 20]>>
    /\ symbol.declaration.kind = "Class"
    /\ symbol.declaration.span = [start |-> 21, end |-> 40]
    /\ rule.ignore_transpiler_name
    /\ component_type = None

\* the names of a chain of static member accesses over an identifier, None
\* for any other expression
RECURSIVE StaticChain(_)
StaticChain(expr) ==
    IF expr.type = "Identifier" THEN Some(<<expr.name>>)
    ELSE IF expr.type # "MemberExpression" THEN None
    ELSE IF expr.property = None \/ StaticChain(expr.object) = None THEN None
    ELSE Some(Append(StaticChain(expr.object)[1], expr.property[1]))

\* the names joined by dots
RECURSIVE Dotted(_)
Dotted(names) ==
    IF Len(names) = 1 THEN names[1]
    ELSE names[1] \o "." \o Dotted(Tail(names))

\* C20: get_expr_ident yields the name of an identifier, the dotted name of a
\* chain of static member accesses over an identifier, and nothing for any
\* other expression or a chain with a link that does not resolve.
C20_ExprIdent ==
    (Linted /\ IsCallDeclarator(symbol.declaration)) =>
        LET callee == symbol.declaration.init[1].callee
        IN  get_expr_ident(callee) =
                IF StaticChain(callee) = None THEN None
                ELSE Some(Dotted(StaticChain(callee)[1]))

C20_Witness ==
    /\ Linted
    /\ IsCallDeclarator(symbol.declaration)
    /\ symbol.declaration.init[1].callee
          = MemberExpression(MemberExpression(Identifier("Foo"), None), Some("createClass"))
    /\ get_expr_ident(MemberExpression(Identifier("React"), Some("createClass")))
          = Some("React.createClass")
    /\ get_expr_ident(symbol.declaration.init[1].callee) = None

\* the element of the configuration array can be decoded into the options:
\* an object whose option keys hold booleans, whatever its other keys hold,
\* or an array of at most two booleans, read by position
IsDecodable(element) ==
    CASE element.type = "Object" ->
            \A i \in 1..Len(element.fields) :
                element.fields[i][1] \in {"checkContextObjects", "ignoreTranspilerName"}
                    => element.fields[i][2].type = "Bool"
      [] element.type = "Array" ->
            /\ Len(element.items) <= 2
            /\ \A i \in 1..Len(element.items) : element.items[i].type = "Bool"
      [] OTHER -> FALSE

\* the option a decodable element gives: the boolean under key, or at
\* position pos of an array, FALSE when it is missing
DecodedOption(element, key, pos) ==
    IF element.type = "Object"
    THEN \E i \in 1..Len(element.fields) : element.fields[i] = <<key, JsonBool(TRUE)>>
    ELSE Len(element.items) >= pos /\ element.items[pos] = JsonBool(TRUE)

\* C21: from_configuration never fails: a configuration value that is null,
\* no array, an array of other than one element, or an array whose element
\* cannot be decoded gives both options false; any other gives each option
\* the decoded field, a missing field being false.
C21_ConfigurationFallback ==
    pc # "new" =>
        /\ rule \in [check_context_objects : BOOLEAN, ignore_transpiler_name : BOOLEAN]
        /\ rule =
              IF /\ options.type = "Array"
                 /\ Len(options.items) = 1
                 /\ IsDecodable(options.items[1])
              THEN [check_context_objects |->
                        DecodedOption(options.items[1], "checkContextObjects", 1),
                    ignore_transpiler_name |->
                        DecodedOption(options.items[1], "ignoreTranspilerName", 2)]
              ELSE [check_context_objects |-> FALSE, ignore_transpiler_name |-> FALSE]

\* an element with one option set and a key the struct has no field for,
\* decoded, the missing option being false
C21_Witness ==
    /\ pc = "ready"
    /\ options = JsonArray(<<JsonObject(<<<<"componentWrapperFunctions", JsonString>>,
                                          <<"ignoreTranspilerName", JsonBool(TRUE)>>>>)>>)
    /\ rule = [check_context_objects |-> FALSE, ignore_transpiler_name |-> TRUE]

\* the five conditions on the declaring node and the rule: a variable
\* declarator with an initializer, a call of createReactClass, createClass or
\* React.createClass, one argument that is an object literal, no property
\* named displayName, and ignore_transpiler_name
EmitsDiagnostic(node, self) ==
    /\ node.kind = "VariableDeclarator"
    /\ node.init # None
    /\ node.init[1].type = "CallExpression"
    /\ StaticChain(node.init[1].callee) # None
    /\ Dotted(StaticChain(node.init[1].callee)[1])
          \in {"createReactClass", "createClass", "React.createClass"}
    /\ Len(node.init[1].arguments) = 1
    /\ node.init[1].arguments[1].type = "Expression"
    /\ node.init[1].arguments[1].expression.type = "ObjectExpression"
    /\ \A i \in 1..Len(node.init[1].arguments[1].expression.properties) :
          node.init[1].arguments[1].expression.properties[i] # Some("displayName")
    /\ self.ignore_transpiler_name

\* C22: run_on_symbol emits a diagnostic exactly when the five conditions
\* hold; get_component_type never returns Unnamed, and nothing is emitted
\* while ignore_transpiler_name is false.
C22_DiagnosticIff ==
    [][pc' = "linted" =>
          /\ diagnostics' # diagnostics <=> EmitsDiagnostic(symbol.declaration, rule)
          /\ component_type' # Some("Unnamed")
          /\ ~rule.ignore_transpiler_name => diagnostics' = diagnostics]_vars

\* var {..} = createClass({[computed]: ..}) reported under ignoreTranspilerName
C22_Witness ==
    /\ Linted
    /\ Reported
    /\ rule.ignore_transpiler_name
    /\ component_type = Some("TranspilerNamed")
    /\ symbol.declaration.kind = "VariableDeclarator"
    /\ symbol.declaration.id = ObjectPattern
    /\ symbol.declaration.init
          = Some(CallExpression(Identifier("createClass"),
                                <<ArgExpression(ObjectExpression(<<None>>))>>))

====
